---- MODULE Spec2Model ----
(***************************************************************************)
(* Semantic search subsystem of the product catalog (EcommerceBuddy):      *)
(*   - the `products` table of the Store with its five VECTOR(768) columns *)
(*   - the Embedding Provider (POST /embed)                                *)
(*   - the change Notifier (trigger + pg_notify on channel embedding_jobs) *)
(*   - the Embedding Sync Worker                                           *)
(*   - the Semantic Search Engine (SemanticSearchProducts) with its        *)
(*     lexical fallback, initDatabase and populateEmbeddings               *)
(*                                                                         *)
(* Texts are sequences of characters.  A vector is not held as 768 floats  *)
(* but as a record [dim, kind, of]: its number of components, who produced *)
(* it (the Provider, or the hash-based pseudo-embedding) and the text it   *)
(* was computed from; the Provider is a function of its text.              *)
(***************************************************************************)
EXTENDS Integers, Sequences, FiniteSets, TLC

\* ------------------------------------------------------------ bounds
NumProducts == 2
MaxQueue == 2
MaxMutations == 2
MaxCalls == 2
MaxItems == 2

\* ------------------------------------------------- program constants
D == 768
DefaultLimit == 10
MaxLimit == 50
NanosPerUnit == 1000000000

Ids == 1..NumProducts
Workers == {"w1", "w2"}
Cols == {"description", "category", "combined", "target_tags", "use_context"}

\* ------------------------------------------------------------- texts
Space == " "
NullText == <<"NULL">>
NullTags == <<NullText>>

RECURSIVE JoinTags(_)
\* array_to_string(tags, ' ')
JoinTags(tags) ==
    IF tags = <<>> THEN <<>>
    ELSE IF Len(tags) = 1 THEN tags[1]
    ELSE tags[1] \o <<Space>> \o JoinTags(Tail(tags))

\* COALESCE(x, '')
Coalesce(t) == IF t = NullText THEN <<>> ELSE t

CoalesceTags(tags) == IF tags = NullTags THEN <<>> ELSE JoinTags(tags)

\* strings.Contains(s, sub)
Contains(s, sub) ==
    \E i \in 1..(Len(s) - Len(sub) + 1) : SubSeq(s, i, i + Len(sub) - 1) = sub

\* ----------------------------------------------------------- vectors
NullVec == [dim |-> 0, kind |-> "null", of |-> <<>>]

\* The Provider's embedding of a text: `embed(text) -> vector[D]`.
Embed(text) == [dim |-> D, kind |-> "provider", of |-> text]

\* A Provider reply whose embedding array has n components.
ProviderReply(text, n) == [dim |-> n, kind |-> "provider", of |-> text]

\* The hash-based pseudo-embedding generateEmbedding falls back to.
HashEmbedding(text) == [dim |-> D, kind |-> "hash", of |-> text]

\* generate_vertex_ai_embedding(input_text): the deterministic SQL embedding.
SqlEmbedding(text) == [dim |-> D, kind |-> "sql", of |-> text]

NoEmbeddings == [c \in Cols |-> NullVec]

\* A column that would accept a vector of any length.
FitsAnyColumn(v) == TRUE

\* A column of type VECTOR(768) accepts a value iff it has 768 components.
FitsColumn(v) == v.dim = D

CharCode(ch) == CASE ch = "a" -> 1 [] ch = "b" -> 2 [] ch = "c" -> 3 [] OTHER -> 0

RECURSIVE TextVal(_)
TextVal(t) == IF t = <<>> THEN 0 ELSE (CharCode(Head(t)) + 3 * TextVal(Tail(t))) % 8

\* Direction of a vector, as one of 8 points of a circle.
VecVal(v) ==
    CASE v.kind = "hash" -> (TextVal(v.of) + 3) % 8
      [] v.kind = "sql" -> (TextVal(v.of) + 5) % 8
      [] OTHER -> TextVal(v.of)

\* strings.Fields(text) is empty: the text holds no word.
NoWords(t) == \A i \in 1..Len(t) : t[i] = Space

\* The hash-based pseudo-embedding of a text without words, and the SQL
\* embedding of a blank text, are the zero vector.
IsZeroVec(v) == v.kind \in {"hash", "sql"} /\ NoWords(v.of)

\* What <=> yields on a zero vector (0/0): NaN, which ORDER BY sorts above
\* every number; any sum with it is NaN again.
NaN == 1000

\* The distance operator <=> in tenths (cosine distance ranges over 0..2).
Distance(v, q) ==
    LET d == IF VecVal(v) >= VecVal(q) THEN VecVal(v) - VecVal(q) ELSE VecVal(q) - VecVal(v)
    IN  IF IsZeroVec(v) \/ IsZeroVec(q) THEN NaN ELSE 5 * (IF d > 4 THEN 8 - d ELSE d)

\* COALESCE(col <=> q, 1.0)
CoalesceDistance(v, q) == IF v = NullVec THEN 10 ELSE Distance(v, q)

\* A score that would leave a missing field vector out instead of charging 1.0.
SimilarityScoreSkipping(row, q) ==
    LET dc == CoalesceDistance(row.emb["combined"], q)
        dt == IF row.emb["target_tags"] = NullVec THEN 0 ELSE Distance(row.emb["target_tags"], q)
        du == IF row.emb["use_context"] = NullVec THEN 0 ELSE Distance(row.emb["use_context"], q)
    IN  IF NaN \in {dc, dt, du} THEN NaN ELSE 6 * dc + 2 * dt + 2 * du

\* similarity_score of a row, in hundredths.
SimilarityScore(row, q) ==
    LET dc == CoalesceDistance(row.emb["combined"], q)
        dt == CoalesceDistance(row.emb["target_tags"], q)
        du == CoalesceDistance(row.emb["use_context"], q)
    IN  IF NaN \in {dc, dt, du} THEN NaN ELSE 6 * dc + 2 * dt + 2 * du

VARIABLES
    products,   \* the Store's products table: id -> row, for the ids that exist
    nmut,       \* catalog mutations made so far
    notifies,   \* per listening Worker, the notifications not yet consumed
    wpc,        \* per Worker: "idle" or "write"
    wjob,       \* per Worker: the job being processed
    wvec,       \* per Worker: the vectors obtained for the job (NullVec: failed)
    bpc,        \* populateEmbeddings: "idle" or "rows"
    brows,      \* populateEmbeddings: the selected rows not yet visited
    host,       \* whether CLOUDSQL_HOST is set in the environment
    db,         \* the Engine's global Store handle: "nil" or "set"
    initResult, \* what the last initDatabase call returned
    spc,        \* the search call: "idle", "embed", "rank", "done"
    sreq,       \* its request
    slimit,     \* its effective limit
    sqvec,      \* its query vector
    sctx,       \* its context: "live" or "cancelled"
    sresp,      \* its response
    mock,       \* the MockConnection: orders, orderItems, userOrders, shouldError
    conn,       \* the Connection: its handle and the two tables behind it
    call,       \* the last OrderService call: number of saves, operation, argument
    result,     \* what that call returned, per implementation behind the service
    saved       \* per implementation, the requests whose SaveOrder succeeded

storeVars == <<products, nmut>>
syncVars == <<notifies, wpc, wjob, wvec>>
fillVars == <<bpc, brows>>
dbVars == <<host, db, initResult>>
searchVars == <<spc, sreq, slimit, sqvec, sctx, sresp>>
orderVars == <<mock, conn, call, result, saved>>
vars == <<products, nmut, notifies, wpc, wjob, wvec, bpc, brows,
          host, db, initResult, spc, sreq, slimit, sqvec, sctx, sresp,
          mock, conn, call, result, saved>>

\* ------------------------------------------------------------- rows
\* A row of the products table (the embedding columns are in emb).
MkRow(name, description, categories, target_tags, use_context, price, emb) ==
    [name |-> name, description |-> description, categories |-> categories,
     target_tags |-> target_tags, use_context |-> use_context,
     price |-> price, emb |-> emb]

\* The five text variants embedded for a record.
VariantText(name, description, categories, target_tags, use_context) ==
    [c \in Cols |->
        CASE c = "description" -> description
          [] c = "category" -> categories
          [] c = "combined" -> name \o <<Space>> \o description \o <<Space>> \o categories
          [] c = "target_tags" -> target_tags
          [] c = "use_context" -> use_context]

\* The variants of a row as the Notifier's payload and the backfill's SELECT see it.
RowVariants(row) ==
    VariantText(Coalesce(row.name), Coalesce(row.description), Coalesce(row.categories),
                CoalesceTags(row.target_tags), CoalesceTags(row.use_context))

\* The Provider's embeddings of a row's current text.
CurrentEmbeddings(row) == [c \in Cols |-> Embed(RowVariants(row)[c])]

\* generate_embeddings_trigger(): the five columns set from the NEW row.
TriggerEmbeddings(row) == [c \in Cols |-> SqlEmbedding(RowVariants(row)[c])]

IdSeq == [i \in 1..NumProducts |-> i]

\* ----------------------------------------------------- lexical search
\* SearchProducts: every catalog record whose name or description contains the query.
SearchProducts(query) ==
    LET Match(i) == /\ i \in DOMAIN products
                    /\ \/ Contains(Coalesce(products[i].name), query)
                       \/ Contains(Coalesce(products[i].description), query)
    IN  SelectSeq(IdSeq, Match)

\* ----------------------------------------------------- the search call
Queries == {<<>>, <<"a">>, <<"c", "c">>}
Limits == {0, 1, 2, MaxLimit + 1}
NilRequest == [nil |-> TRUE, query |-> <<>>, limit |-> 0]
Requests == {NilRequest} \cup [nil : {FALSE}, query : Queries, limit : Limits]

NoResponse == [kind |-> "none", code |-> "", results |-> <<>>, path |-> ""]
ErrorResponse(code, path) == [kind |-> "error", code |-> code, results |-> <<>>, path |-> path]
OkResponse(results, path) == [kind |-> "ok", code |-> "OK", results |-> results, path |-> path]

\* limit := req.Limit; if limit <= 0 || limit > 50 { limit = 10 }
EffectiveLimit(limit) == IF limit <= 0 \/ limit > MaxLimit THEN DefaultLimit ELSE limit

\* A fallback that would truncate the lexical results to the request's limit.
FallbackTruncated(req, path) ==
    LET found == SearchProducts(req.query)
        limit == IF req.limit <= 0 \/ req.limit > MaxLimit THEN DefaultLimit ELSE req.limit
    IN  [kind |-> "ok", code |-> "OK", path |-> path,
         results |-> SubSeq(found, 1, IF Len(found) < limit THEN Len(found) ELSE limit)]

\* return p.SearchProducts(ctx, &pb.SearchProductsRequest{Query: req.Query})
Fallback(req, path) == OkResponse(SearchProducts(req.query), path)

\* WHERE p.combined_embedding IS NOT NULL
Rankable == {i \in DOMAIN products : products[i].emb["combined"] # NullVec}

Min(a, b) == IF a < b THEN a ELSE b

\* ORDER BY similarity_score ASC LIMIT $2: the orders a ranking query may return
\* (rows of equal score come in any order).
RankedRows(q, limit) ==
    LET n == Cardinality(Rankable)
        Sorted(s) == /\ \A i, j \in 1..n : i # j => s[i] # s[j]
                     /\ \A i \in 1..(n - 1) :
                            SimilarityScore(products[s[i]], q) <= SimilarityScore(products[s[i + 1]], q)
    IN  {SubSeq(s, 1, Min(limit, n)) : s \in {t \in [1..n -> Rankable] : Sorted(t)}}

\* rows.Scan into string fields fails on a NULL column.
ScanFails(row) ==
    \/ row.name = NullText
    \/ row.description = NullText
    \/ row.categories = NullText
    \/ row.target_tags = NullTags
    \/ row.use_context = NullTags

\* A row loop that would stop at the first row it cannot scan.
DecodeRowsAborting(rows) ==
    LET bad == {i \in 1..Len(rows) : ScanFails(products[rows[i]])}
    IN  IF bad = {} THEN rows
        ELSE SubSeq(rows, 1, (CHOOSE i \in bad : \A j \in bad : i <= j) - 1)

\* The row loop: a row that cannot be scanned is skipped (continue).
DecodeRows(rows) == SelectSeq(rows, LAMBDA i : ~ScanFails(products[i]))

\* '$1::vector' and '<=>' reject a query vector of another dimension.
QueryRejected(q) == q.dim = 0 \/ (q.dim # D /\ Rankable # {})

\* -------------------------------------------------------- initDatabase
DbOutcomes == {"ok", "password_error", "open_error", "ping_error"}

\* initDatabase: a no-op once the handle is set; disabled without CLOUDSQL_HOST;
\* sql.Open assigns the global handle before the ping.
InitDatabase(outcome) ==
    /\ db' = IF db = "nil" /\ host /\ outcome \in {"ok", "ping_error"} THEN "set" ELSE db
    /\ initResult' = IF db # "nil" \/ ~host \/ outcome = "ok" THEN "ok" ELSE "error"
    /\ UNCHANGED <<host, storeVars, syncVars, fillVars, searchVars, orderVars>>

\* ------------------------------------------------ SemanticSearchProducts
\* An entry that would report the unset Store to the caller.
SearchStartStrict(req) ==
    /\ spc = "idle"
    /\ sreq' = req
    /\ sctx' = "live"
    /\ sqvec' = NullVec
    /\ IF req.nil
       THEN /\ sresp' = ErrorResponse("InvalidArgument", "nil_request")
            /\ spc' = "done"
            /\ slimit' = 0
       ELSE IF db = "nil"
       THEN /\ sresp' = ErrorResponse("FailedPrecondition", "store_unset")
            /\ spc' = "done"
            /\ slimit' = 0
       ELSE /\ sresp' = NoResponse
            /\ spc' = "embed"
            /\ slimit' = EffectiveLimit(req.limit)
    /\ UNCHANGED <<storeVars, syncVars, fillVars, dbVars, orderVars>>

\* An entry that would test the Store handle before the request.
SearchStartStoreFirst(req) ==
    /\ spc = "idle"
    /\ sreq' = req
    /\ sctx' = "live"
    /\ sqvec' = NullVec
    /\ IF db = "nil"
       THEN /\ sresp' = Fallback(req, "store_unset")
            /\ spc' = "done"
            /\ slimit' = 0
       ELSE IF req.nil
       THEN /\ sresp' = ErrorResponse("InvalidArgument", "nil_request")
            /\ spc' = "done"
            /\ slimit' = 0
       ELSE /\ sresp' = NoResponse
            /\ spc' = "embed"
            /\ slimit' = EffectiveLimit(req.limit)
    /\ UNCHANGED <<storeVars, syncVars, fillVars, dbVars, orderVars>>

\* Entry: the nil check, the Store check, the limit.
SearchStart(req) ==
    /\ spc = "idle"
    /\ sreq' = req
    /\ sctx' = "live"
    /\ sqvec' = NullVec
    /\ IF req.nil
       THEN /\ sresp' = ErrorResponse("InvalidArgument", "nil_request")
            /\ spc' = "done"
            /\ slimit' = 0
       ELSE IF db = "nil"
       THEN /\ sresp' = Fallback(req, "store_unset")
            /\ spc' = "done"
            /\ slimit' = 0
       ELSE /\ sresp' = NoResponse
            /\ spc' = "embed"
            /\ slimit' = EffectiveLimit(req.limit)
    /\ UNCHANGED <<storeVars, syncVars, fillVars, dbVars, orderVars>>

\* What a call of the Provider may come back with: an error (transport, status,
\* undecodable body), or a decoded embedding array of some length.
ProviderOutcomes == {"fail", "ok", "short", "empty"}

ProviderResult(text, outcome) ==
    CASE outcome = "ok" -> Embed(text)
      [] outcome = "short" -> ProviderReply(text, D - 1)
      [] outcome = "empty" -> ProviderReply(text, 0)
      [] OTHER -> NullVec

\* An embed step that would open a circuit breaker on a Provider failure:
\* the Store handle is dropped and later calls go straight to the fallback.
EmbedReturnTripping(outcome) ==
    /\ spc = "embed"
    /\ IF outcome = "fail"
       THEN /\ sresp' = Fallback(sreq, "embed_failed")
            /\ spc' = "done"
            /\ sqvec' = sqvec
            /\ db' = "nil"
       ELSE /\ sqvec' = ProviderResult(sreq.query, outcome)
            /\ spc' = "rank"
            /\ sresp' = sresp
            /\ db' = db
    /\ UNCHANGED <<sreq, slimit, sctx, storeVars, syncVars, fillVars, host, initResult, orderVars>>

\* callVertexAIEmbedding(req.Query) returns (http.Post takes no context).
EmbedReturn(outcome) ==
    /\ spc = "embed"
    /\ IF outcome = "fail"
       THEN /\ sresp' = Fallback(sreq, "embed_failed")
            /\ spc' = "done"
            /\ sqvec' = sqvec
       ELSE /\ sqvec' = ProviderResult(sreq.query, outcome)
            /\ spc' = "rank"
            /\ sresp' = sresp
    /\ UNCHANGED <<sreq, slimit, sctx, storeVars, syncVars, fillVars, dbVars, orderVars>>

RankOutcomes == {"ok", "query_error", "rows_error"}

\* A ranking step that would keep the query vector in the Store, as the
\* description vector of the best-ranked record.
RankReturnPersisting(outcome, rows) ==
    /\ spc = "rank"
    /\ sctx = "cancelled" => outcome # "ok"
    /\ QueryRejected(sqvec) => outcome = "query_error"
    /\ rows \in RankedRows(sqvec, slimit)
    /\ sresp' = CASE outcome = "query_error" -> Fallback(sreq, "query_failed")
                  [] outcome = "rows_error" -> ErrorResponse("Internal", "rows_error")
                  [] OTHER -> OkResponse(DecodeRows(rows), "semantic")
    /\ spc' = "done"
    /\ products' = IF outcome = "ok" /\ rows # <<>>
                   THEN [products EXCEPT ![rows[1]].emb["description"] = sqvec]
                   ELSE products
    /\ UNCHANGED <<sreq, slimit, sqvec, sctx, nmut, syncVars, fillVars, dbVars, orderVars>>

\* db.QueryContext returns and the rows are read.  A cancelled context makes
\* the query or the iteration fail.
RankReturn(outcome, rows) ==
    /\ spc = "rank"
    /\ sctx = "cancelled" => outcome # "ok"
    /\ QueryRejected(sqvec) => outcome = "query_error"
    /\ rows \in RankedRows(sqvec, slimit)
    /\ sresp' = CASE outcome = "query_error" -> Fallback(sreq, "query_failed")
                  [] outcome = "rows_error" -> ErrorResponse("Internal", "rows_error")
                  [] OTHER -> OkResponse(DecodeRows(rows), "semantic")
    /\ spc' = "done"
    /\ UNCHANGED <<sreq, slimit, sqvec, sctx, storeVars, syncVars, fillVars, dbVars, orderVars>>

\* The caller cancels the request context while the call is blocked.
Cancel ==
    /\ spc \in {"embed", "rank"}
    /\ sctx = "live"
    /\ sctx' = "cancelled"
    /\ UNCHANGED <<spc, sreq, slimit, sqvec, sresp, storeVars, syncVars, fillVars, dbVars, orderVars>>

\* The response has been handed to the caller; the next call may start.
SearchReturn ==
    /\ spc = "done"
    /\ spc' = "idle"
    /\ sreq' = NilRequest
    /\ slimit' = 0
    /\ sqvec' = NullVec
    /\ sctx' = "live"
    /\ sresp' = NoResponse
    /\ UNCHANGED <<storeVars, syncVars, fillVars, dbVars, orderVars>>

NoJob == [id |-> 0, name |-> <<>>, description |-> <<>>, categories |-> <<>>,
          target_tags |-> <<>>, use_context |-> <<>>]

\* ============================================== checkout: order history
\* ------------------------------------------------------ 64-bit integers
\* An int64 is held as its two's-complement bytes, least significant first, so
\* that Go's 64-bit wrap-around is computed exactly.
RECURSIVE Bytes(_, _)
\* The low `len` bytes of a non-negative number.
Bytes(k, len) == IF len = 0 THEN <<>> ELSE <<k % 256>> \o Bytes(k \div 256, len - 1)

ByteAt(a, i) == IF i <= Len(a) THEN a[i] ELSE 0

RECURSIVE AddCarry(_, _, _, _, _)
AddCarry(a, b, i, carry, len) ==
    IF i > len THEN <<>>
    ELSE LET s == ByteAt(a, i) + ByteAt(b, i) + carry
         IN  <<s % 256>> \o AddCarry(a, b, i + 1, s \div 256, len)

\* a + b, wrapped to `len` bytes.
Plus(a, b, len) == AddCarry(a, b, 1, 0, len)

RECURSIVE ScaleCarry(_, _, _, _, _)
ScaleCarry(a, d, i, carry, len) ==
    IF i > len THEN <<>>
    ELSE LET s == ByteAt(a, i) * d + carry
         IN  <<s % 256>> \o ScaleCarry(a, d, i + 1, s \div 256, len)

\* a shifted up by k bytes, wrapped to `len` bytes.
ShiftBytes(a, k, len) == [i \in 1..len |-> IF i <= k THEN 0 ELSE ByteAt(a, i - k)]

RECURSIVE TimesFrom(_, _, _, _)
TimesFrom(a, b, j, len) ==
    IF j > Len(b) THEN [i \in 1..len |-> 0]
    ELSE IF b[j] = 0 THEN TimesFrom(a, b, j + 1, len)
    ELSE Plus(ShiftBytes(ScaleCarry(a, b[j], 1, 0, len), j - 1, len),
              TimesFrom(a, b, j + 1, len), len)

\* a * b, wrapped to `len` bytes (Go's wrap-around multiplication).
Times(a, b, len) == TimesFrom(a, b, 1, len)

\* int64(k) of a 32-bit integer k.
Int64(k) ==
    IF k >= 0 THEN Bytes(k, 8)
    ELSE Plus(Bytes((k + 2147483647) + 1, 8), <<0, 0, 0, 128, 255, 255, 255, 255>>, 8)

IsNegative(a) == a[Len(a)] >= 128

RECURSIVE LessFrom(_, _, _)
LessFrom(a, b, i) ==
    IF i = 0 THEN FALSE
    ELSE IF a[i] # b[i] THEN a[i] < b[i]
    ELSE LessFrom(a, b, i - 1)

\* a < b for unsigned numbers of the same length.
Less(a, b) == LessFrom(a, b, Len(a))

\* a >= b for int64 values.
GreaterEq(a, b) ==
    IF IsNegative(a) # IsNegative(b) THEN IsNegative(b) ELSE ~Less(a, b)

BitAt(a, k) == (a[(k \div 8) + 1] \div (2 ^ (k % 8))) % 2

RECURSIVE DivFrom(_, _, _, _, _)
DivFrom(a, d, k, rem, quot) ==
    IF k < 0 THEN [quot |-> quot, rem |-> rem]
    ELSE LET r == 2 * rem + BitAt(a, k)
         IN  IF r >= d
             THEN DivFrom(a, d, k - 1, r - d, [quot EXCEPT ![(k \div 8) + 1] = @ + 2 ^ (k % 8)])
             ELSE DivFrom(a, d, k - 1, r, quot)

\* a / d and a % d for a non-negative int64 a and 0 < d <= NanosPerUnit.
DivMod(a, d) == DivFrom(a, d, 8 * Len(a) - 1, 0, [i \in 1..Len(a) |-> 0])

\* int32(a): the low four bytes, read as a signed number.
Int32(a) ==
    a[1] + 256 * a[2] + 65536 * a[3] + 16777216 * (IF a[4] >= 128 THEN a[4] - 256 ELSE a[4])

\* ------------------------------------------------------------ models
\* A line total that would not carry whole units out of the nanos.
ItemTotalNoCarry(cost, quantity) ==
    [units |-> Times(cost.units, Int64(quantity), 8),
     nanos |-> Int32(Times(Int64(cost.nanos), Int64(quantity), 8))]

\* The total price of a line item, as the loop body of NewOrderItemsFromProto
\* computes it in int64.
ItemTotal(cost, quantity) ==
    LET totalUnits == Times(cost.units, Int64(quantity), 8)
        totalNanos == Times(Int64(cost.nanos), Int64(quantity), 8)
        extra == DivMod(totalNanos, NanosPerUnit)
    IN  IF GreaterEq(totalNanos, Int64(NanosPerUnit))
        THEN [units |-> Plus(totalUnits, extra.quot, 8), nanos |-> Int32(Int64(extra.rem))]
        ELSE [units |-> totalUnits, nanos |-> Int32(totalNanos)]

NewOrderItemsFromProto(orderID, protoItems) ==
    [i \in 1..Len(protoItems) |->
        LET item == protoItems[i]
            total == ItemTotal(item.cost, item.quantity)
        IN  [ID |-> 0,
             OrderID |-> orderID,
             ProductID |-> item.product_id,
             Quantity |-> item.quantity,
             UnitPriceCurrency |-> item.cost.currency_code,
             UnitPriceUnits |-> item.cost.units,
             UnitPriceNanos |-> item.cost.nanos,
             TotalPriceCurrency |-> item.cost.currency_code,
             TotalPriceUnits |-> total.units,
             TotalPriceNanos |-> total.nanos]]

NilAddress == [nil |-> TRUE]

formatShippingAddress(address) ==
    IF address = NilAddress THEN <<>>
    ELSE <<address.street_address, ", ", address.city, ", ", address.state, " ",
           address.zip_code, ", ", address.country>>

NewOrderFromProto(orderResult, email, userID, total) ==
    [OrderID |-> orderResult.order_id,
     UserID |-> userID,
     Email |-> email,
     TotalAmountCurrency |-> total.currency_code,
     TotalAmountUnits |-> total.units,
     TotalAmountNanos |-> total.nanos,
     ShippingTrackingID |-> orderResult.shipping_tracking_id,
     ShippingAddress |-> formatShippingAddress(orderResult.shipping_address),
     OrderDate |-> 0,
     Status |-> "completed"]

\* --------------------------------------------------- MockConnection
NoError == "nil"

\* m[k] = v of a Go map.
Put(m, k, v) == [x \in DOMAIN m \cup {k} |-> IF x = k THEN v ELSE m[x]]

NewMockConnection ==
    [orders |-> <<>>, orderItems |-> <<>>, userOrders |-> <<>>, shouldError |-> FALSE]

\* A mock that would store the order before it reports its error.
MockSaveOrderLate(mc, order, items) ==
    [db |-> [mc EXCEPT !.orders = Put(@, order.OrderID, order),
                       !.orderItems = Put(@, order.OrderID, items),
                       !.userOrders = Put(@, order.UserID,
                                          Append(IF order.UserID \in DOMAIN @
                                                 THEN @[order.UserID] ELSE <<>>,
                                                 order.OrderID))],
     err |-> IF mc.shouldError THEN "mock database error" ELSE NoError]

MockSaveOrder(mc, order, items) ==
    IF mc.shouldError
    THEN [db |-> mc, err |-> "mock database error"]
    ELSE [db |-> [mc EXCEPT !.orders = Put(@, order.OrderID, order),
                            !.orderItems = Put(@, order.OrderID, items),
                            !.userOrders = Put(@, order.UserID,
                                               Append(IF order.UserID \in DOMAIN @
                                                      THEN @[order.UserID] ELSE <<>>,
                                                      order.OrderID))],
          err |-> NoError]

\* A mock whose history would not be filtered by user.
MockGetOrdersByAnyUser(mc, userID) ==
    LET ids == [u \in DOMAIN mc.userOrders |-> mc.userOrders[u]]
        all == IF "u1" \in DOMAIN ids THEN ids["u1"] ELSE <<>>
        more == IF "u2" \in DOMAIN ids THEN ids["u2"] ELSE <<>>
    IN  [orders |-> [k \in 1..Len(all \o more) |-> mc.orders[(all \o more)[k]]],
         err |-> IF mc.shouldError THEN "mock database error" ELSE NoError]

MockGetOrdersByUser(mc, userID) ==
    IF mc.shouldError THEN [orders |-> <<>>, err |-> "mock database error"]
    ELSE IF userID \notin DOMAIN mc.userOrders THEN [orders |-> <<>>, err |-> NoError]
    ELSE LET exists(orderID) == orderID \in DOMAIN mc.orders
             orderIDs == SelectSeq(mc.userOrders[userID], exists)
         IN  [orders |-> [k \in 1..Len(orderIDs) |-> mc.orders[orderIDs[k]]],
              err |-> NoError]

MockGetOrderItems(mc, orderID) ==
    IF mc.shouldError THEN [items |-> <<>>, err |-> "mock database error"]
    ELSE IF orderID \notin DOMAIN mc.orderItems THEN [items |-> <<>>, err |-> NoError]
    ELSE [items |-> mc.orderItems[orderID], err |-> NoError]

\* ------------------------------------------------------- Connection
\* The Connection with the two tables of its database.  `serial` is the
\* sequence behind order_items.id, `now` the clock behind NOW().
NewConnection ==
    [DB |-> "nil", order_history |-> <<>>, order_items |-> <<>>, serial |-> 0, now |-> 0]

\* How the database answers the statements of one SaveOrder call.
SaveFaults == {"none", "begin", "order", "item", "commit"}
\* How it answers the query of a read.
ReadFaults == {"none", "query"}

\* order_id is the primary key of order_history.
HasOrder(c, orderID) ==
    \E k \in 1..Len(c.order_history) : c.order_history[k].OrderID = orderID

\* INSERT INTO order_history ... VALUES (..., NOW(), 'completed')
InsertOrder(c, order) ==
    [c EXCEPT !.order_history =
                  Append(@, [order EXCEPT !.OrderDate = c.now + 1, !.Status = "completed"]),
              !.now = @ + 1]

\* INSERT INTO order_items of the first n items, each taking the next id.
InsertItems(c, items, n) ==
    [c EXCEPT !.order_items = @ \o [i \in 1..n |-> [items[i] EXCEPT !.ID = c.serial + i]]]

\* The error of the first statement that fails; an item fault hits the last item.
SaveError(c, order, items, fault) ==
    IF c.DB = "nil" THEN "database connection not initialized"
    ELSE IF fault = "begin" THEN "failed to begin transaction"
    ELSE IF fault = "order" \/ HasOrder(c, order.OrderID) THEN "failed to insert order"
    ELSE IF fault = "item" /\ items # <<>> THEN "failed to insert order item"
    ELSE IF fault = "commit" THEN "commit error"
    ELSE NoError

\* The item INSERTs executed before the call returned: each consumed an id.
ItemsAttempted(c, order, items, fault) ==
    IF SaveError(c, order, items, fault) \in {"failed to insert order item", "commit error", NoError}
    THEN Len(items) ELSE 0

\* A SaveOrder whose statements would each commit on their own.
ConnSaveOrderAutocommit(c, order, items, fault) ==
    LET err == SaveError(c, order, items, fault)
        n == ItemsAttempted(c, order, items, fault)
        withOrder == InsertOrder(c, order)
    IN  [db |-> IF err = "failed to insert order item"
                THEN [InsertItems(withOrder, items, n - 1) EXCEPT !.serial = @ + n]
                ELSE IF err \in {"commit error", NoError}
                THEN [InsertItems(withOrder, items, n) EXCEPT !.serial = @ + n]
                ELSE c,
         err |-> err]

\* Connection.SaveOrder: one transaction, rolled back unless Commit succeeds.
\* The ids taken from the sequence are not given back by a rollback.
ConnSaveOrder(c, order, items, fault) ==
    LET err == SaveError(c, order, items, fault)
        n == ItemsAttempted(c, order, items, fault)
    IN  [db |-> IF err = NoError
                THEN [InsertItems(InsertOrder(c, order), items, n) EXCEPT !.serial = @ + n]
                ELSE [c EXCEPT !.serial = @ + n],
         err |-> err]

\* SELECT ... FROM order_history WHERE user_id = $1 ORDER BY order_date DESC
ConnGetOrdersByUser(c, userID, fault) ==
    IF c.DB = "nil" THEN [orders |-> <<>>, err |-> "database connection not initialized"]
    ELSE IF fault = "query" THEN [orders |-> <<>>, err |-> "failed to query orders"]
    ELSE LET ofUser(row) == row.UserID = userID
             rows == SelectSeq(c.order_history, ofUser)
         IN  [orders |-> [k \in 1..Len(rows) |-> rows[Len(rows) + 1 - k]], err |-> NoError]

\* SELECT ... FROM order_items WHERE order_id = $1: no ORDER BY; the table is
\* only ever appended to and its rows come back as they were inserted.
ConnGetOrderItems(c, orderID, fault) ==
    IF c.DB = "nil" THEN [items |-> <<>>, err |-> "database connection not initialized"]
    ELSE IF fault = "query" THEN [items |-> <<>>, err |-> "failed to query order items"]
    ELSE LET ofOrder(row) == row.OrderID = orderID
         IN  [items |-> SelectSeq(c.order_items, ofOrder), err |-> NoError]

\* --------------------------------------------------------- the inputs
Users == {"u1", "u2"}
OrderIds == {"o1", "o2"}

Money(code, units, nanos) == [currency_code |-> code, units |-> Int64(units), nanos |-> nanos]

ProtoItem(productID, quantity, cost) ==
    [product_id |-> productID, quantity |-> quantity, cost |-> cost]

TestAddress ==
    [street_address |-> "123 Main St", city |-> "Anytown", state |-> "CA",
     zip_code |-> "12345", country |-> "USA"]

\* The items of the tests.
TestItems ==
    { ProtoItem("PRODUCT-1", 2, Money("USD", 15, 990000000)),
      ProtoItem("PRODUCT-2", 1, Money("EUR", 25, 500000000)),
      ProtoItem("PRODUCT-OVERFLOW", 3, Money("USD", 10, 999999999)) }

\* A cart of the tests, and an order without items.
Carts ==
    { [items |-> <<ProtoItem("PRODUCT-1", 2, Money("USD", 15, 990000000)),
                   ProtoItem("PRODUCT-2", 1, Money("EUR", 25, 500000000))>>,
       total |-> Money("USD", 57, 480000000)],
      [items |-> <<>>, total |-> Money("USD", 0, 0)] }

\* The arguments of OrderService.SaveOrder.
SaveRequests ==
    { [orderResult |-> [order_id |-> o, shipping_tracking_id |-> "track",
                        shipping_address |-> IF u = "u1" THEN TestAddress ELSE NilAddress,
                        items |-> cart.items],
       email |-> <<u, "@example.com">>, userID |-> u, total |-> cart.total] :
      o \in OrderIds, u \in Users, cart \in Carts }

\* The models OrderService.SaveOrder builds from a request.
OrderOf ==
    [req \in SaveRequests |-> NewOrderFromProto(req.orderResult, req.email, req.userID, req.total)]
ItemsOf ==
    [req \in SaveRequests |-> NewOrderItemsFromProto(req.orderResult.order_id, req.orderResult.items)]

\* ----------------------------------------------------- OrderService
NoCall == [n |-> 0, op |-> "none", arg |-> "none", fault |-> "none", clean |-> TRUE]
\* A service-level error is the prefix and the database error; <<>> is nil.
NoResult == [orders |-> <<>>, items |-> <<>>, err |-> <<>>]
Backends == {"mock", "conn"}

InitOrders ==
    /\ mock = NewMockConnection
    /\ conn = NewConnection
    /\ call = NoCall
    /\ result = [b \in Backends |-> NoResult]
    /\ saved = [b \in Backends |-> <<>>]

\* fmt.Errorf(prefix + ": %v", err)
Wrap(prefix, err) == IF err = NoError THEN <<>> ELSE <<prefix, err>>

\* No injected failure so far, this call included.
Clean(fault) == call.clean /\ fault = "none" /\ ~mock.shouldError /\ conn.DB = "set"

\* Connection.Connect: the handle is set only when ping and createTables succeed.
Connect(outcome) ==
    /\ conn.DB = "nil"
    /\ conn' = [conn EXCEPT !.DB = IF outcome = "ok" THEN "set" ELSE "nil"]
    /\ UNCHANGED <<mock, call, result, saved>>
    /\ UNCHANGED <<storeVars, syncVars, fillVars, dbVars, searchVars>>

SetShouldError(shouldError) ==
    /\ mock.shouldError # shouldError
    /\ mock' = [mock EXCEPT !.shouldError = shouldError]
    /\ UNCHANGED <<conn, call, result, saved>>
    /\ UNCHANGED <<storeVars, syncVars, fillVars, dbVars, searchVars>>

\* OrderService.SaveOrder, on a service over each implementation of the interface.
SaveOrder(req, fault) ==
    /\ call.n < MaxCalls
    /\ LET m == MockSaveOrder(mock, OrderOf[req], ItemsOf[req])
           c == ConnSaveOrder(conn, OrderOf[req], ItemsOf[req], fault)
       IN  /\ mock' = m.db
           /\ conn' = c.db
           /\ result' = [b \in Backends |->
                           [NoResult EXCEPT !.err = Wrap("failed to save order to database",
                                                         IF b = "mock" THEN m.err ELSE c.err)]]
           /\ saved' = [b \in Backends |->
                           IF (IF b = "mock" THEN m.err ELSE c.err) = NoError
                           THEN Append(saved[b], req) ELSE saved[b]]
    /\ call' = [n |-> call.n + 1, op |-> "SaveOrder", arg |-> req.orderResult.order_id,
                fault |-> fault, clean |-> Clean(fault)]
    /\ UNCHANGED <<storeVars, syncVars, fillVars, dbVars, searchVars>>

\* OrderService.GetUserOrderHistory
GetUserOrderHistory(userID, fault) ==
    /\ LET m == MockGetOrdersByUser(mock, userID)
           c == ConnGetOrdersByUser(conn, userID, fault)
       IN  result' = [b \in Backends |->
                        LET r == IF b = "mock" THEN m ELSE c
                        IN  [orders |-> IF r.err = NoError THEN r.orders ELSE <<>>,
                             items |-> <<>>,
                             err |-> Wrap("failed to get user order history", r.err)]]
    /\ call' = [call EXCEPT !.op = "GetUserOrderHistory", !.arg = userID,
                            !.fault = fault, !.clean = Clean(fault)]
    /\ UNCHANGED <<mock, conn, saved>>
    /\ UNCHANGED <<storeVars, syncVars, fillVars, dbVars, searchVars>>

\* OrderService.GetOrderDetails: the order itself is not fetched, only its items.
GetOrderDetails(orderID, fault) ==
    /\ LET m == MockGetOrderItems(mock, orderID)
           c == ConnGetOrderItems(conn, orderID, fault)
       IN  result' = [b \in Backends |->
                        LET r == IF b = "mock" THEN m ELSE c
                        IN  [orders |-> <<>>,
                             items |-> IF r.err = NoError THEN r.items ELSE <<>>,
                             err |-> Wrap("failed to get order items", r.err)]]
    /\ call' = [call EXCEPT !.op = "GetOrderDetails", !.arg = orderID,
                            !.fault = fault, !.clean = Clean(fault)]
    /\ UNCHANGED <<mock, conn, saved>>
    /\ UNCHANGED <<storeVars, syncVars, fillVars, dbVars, searchVars>>

\* models.NewOrderItemsFromProto applied to the items of the call.
ConvertItems ==
    /\ call.op = "NewOrderItemsFromProto"
    /\ call.n = 0
    /\ result' = [b \in Backends |->
                    [NoResult EXCEPT !.items = NewOrderItemsFromProto(call.arg.orderID,
                                                                      call.arg.protoItems)]]
    /\ call' = [call EXCEPT !.n = 1]
    /\ UNCHANGED <<mock, conn, saved>>
    /\ UNCHANGED <<storeVars, syncVars, fillVars, dbVars, searchVars>>

\* ------------------------------------------------------ initial states
InitSync ==
    /\ notifies = [w \in Workers |-> <<>>]
    /\ wpc = [w \in Workers |-> "idle"]
    /\ wjob = [w \in Workers |-> NoJob]
    /\ wvec = [w \in Workers |-> NoEmbeddings]

InitFill ==
    /\ bpc = "idle"
    /\ brows = <<>>

InitDb ==
    /\ host \in BOOLEAN
    /\ db = "nil"
    /\ initResult = "none"

InitSearch ==
    /\ spc = "idle"
    /\ sreq = NilRequest
    /\ slimit = 0
    /\ sqvec = NullVec
    /\ sctx = "live"
    /\ sresp = NoResponse

\* Rows a catalog may hold when the Engine serves it: fully embedded, embedded
\* without its target_tags vector, not embedded yet, with a NULL list column,
\* and two rows embedded by the products_embedding_trigger (empty tag lists).
FullyEmbedded(row) == [row EXCEPT !.emb = CurrentEmbeddings(row)]

SampleRows ==
    LET r1 == MkRow(<<"a", "b">>, <<"b">>, <<"c">>, <<<<"a">>>>, <<<<"b">>, <<"c">>>>, 10, NoEmbeddings)
        r2 == MkRow(<<"b">>, <<"a", "c">>, <<"b">>, <<<<"c">>>>, <<>>, 20, NoEmbeddings)
        r3 == MkRow(<<"b">>, <<"a", "b">>, <<"a">>, <<>>, <<<<"a">>>>, 30, NoEmbeddings)
        r4 == MkRow(<<"a">>, <<"a">>, NullText, NullTags, <<<<"b">>>>, 40, NoEmbeddings)
        r5 == MkRow(<<"a">>, <<"a">>, <<"b">>, <<>>, <<>>, 50, NoEmbeddings)
        r6 == MkRow(<<"b">>, <<"c">>, <<"c">>, <<>>, <<>>, 60, NoEmbeddings)
    IN  { FullyEmbedded(r1),
          [FullyEmbedded(r2) EXCEPT !.emb["target_tags"] = NullVec],
          r3,
          FullyEmbedded(r4),
          [r5 EXCEPT !.emb = TriggerEmbeddings(r5)],
          [r6 EXCEPT !.emb = TriggerEmbeddings(r6)] }

SampleTables == UNION {[S -> SampleRows] : S \in SUBSET Ids}

\* The Engine serving a catalog.
Init ==
    /\ products \in SampleTables
    /\ nmut = 0
    /\ InitSync /\ InitFill /\ InitDb /\ InitSearch /\ InitOrders

Next ==
    \/ \E outcome \in DbOutcomes : InitDatabase(outcome)
    \/ \E req \in Requests : SearchStart(req)
    \/ \E outcome \in ProviderOutcomes : EmbedReturn(outcome)
    \/ \E outcome \in RankOutcomes : \E rows \in RankedRows(sqvec, slimit) : RankReturn(outcome, rows)
    \/ Cancel
    \/ SearchReturn

Spec == Init /\ [][Next]_vars

\* --------------------------------------------------- claims on the Engine
Answered == spc = "done" /\ ~sreq.nil

\* C1: every successful SemanticSearch response holds at most the effective
\* limit of its request, on the semantic path and on every fallback path.
C1_ResponseWithinLimit ==
    (Answered /\ sresp.kind = "ok") => Len(sresp.results) <= EffectiveLimit(sreq.limit)

\* C2: a non-nil request is always answered with a result set and no error,
\* whatever the Provider and the Store do.
C2_NeverAnError == Answered => sresp.kind = "ok"

\* C3: when the embed-query call fails or the ranking query errors, the response
\* is the result set of lexical search called directly with the same query.
C3_FallbackEquivalence ==
    (spc = "done" /\ sresp.path \in {"embed_failed", "query_failed"})
        => (sresp.kind = "ok" /\ sresp.results = SearchProducts(sreq.query))

\* C3 witness: a ranking query failed although records were rankable, and the
\* lexical results (two records) were returned for a limit of one.
C3_Witness ==
    /\ spc = "done"
    /\ sresp.path = "query_failed"
    /\ Rankable # {}
    /\ sreq.limit = 1
    /\ Len(sresp.results) = 2

\* C4: while the Store handle is unset every call is answered with the lexical
\* results and no error, and initDatabase without a configured Store reports
\* success and leaves the handle unset.
C4_UnsetStoreFallsBack ==
    /\ (db = "nil" /\ Answered) => sresp = OkResponse(SearchProducts(sreq.query), "store_unset")
    /\ ~host => (db = "nil" /\ initResult \in {"none", "ok"})

\* C4 witness: initDatabase has run without CLOUDSQL_HOST and a search was
\* answered from the lexical fallback.
C4_Witness ==
    /\ ~host
    /\ initResult = "ok"
    /\ db = "nil"
    /\ Answered
    /\ sresp.path = "store_unset"
    /\ sresp.results # <<>>

\* C10: a call whose context was cancelled while it was blocked on the Provider
\* or on the ranking query ends with a failure, never with a result set.
C10_CancelledCallFails == (spc = "done" /\ sctx = "cancelled") => sresp.kind = "error"

\* The score of a record for the call's query vector as the ranking is
\* specified: weights 0.6 / 0.2 / 0.2, a missing field vector charged 1.0.
RankScore(id) ==
    LET e == products[id].emb
        dist(v) == IF v = NullVec THEN 10 ELSE Distance(v, sqvec)
        dc == dist(e["combined"])
        dt == dist(e["target_tags"])
        du == dist(e["use_context"])
    IN  IF NaN \in {dc, dt, du} THEN NaN ELSE 6 * dc + 2 * dt + 2 * du

\* s lists the first `limit` records with a combined vector, by ascending score.
IsTopRanking(s, limit) ==
    LET n == Cardinality({i \in DOMAIN products : products[i].emb["combined"] # NullVec})
    IN  /\ Len(s) = IF limit < n THEN limit ELSE n
        /\ \A i \in 1..Len(s) : s[i] \in DOMAIN products /\ products[s[i]].emb["combined"] # NullVec
        /\ \A i, j \in 1..Len(s) : i # j => s[i] # s[j]
        /\ \A i, j \in 1..Len(s) : i < j => RankScore(s[i]) <= RankScore(s[j])
        /\ \A id \in DOMAIN products :
               (products[id].emb["combined"] # NullVec /\ \A i \in 1..Len(s) : s[i] # id)
                   => \A i \in 1..Len(s) : RankScore(s[i]) <= RankScore(id)

RankSeqs == UNION {[1..n -> Ids] : n \in 0..NumProducts}

SemanticAnswer == spc = "done" /\ sresp.path = "semantic"

\* C11 as stated: when the embed step and the ranking query succeed, the result
\* is exactly the first `limit` records by ascending score among the records
\* with a combined vector.
C11_ExactlyTopLimit ==
    SemanticAnswer => IsTopRanking(sresp.results, EffectiveLimit(sreq.limit))

\* C11 amended: the result is the first `limit` records by ascending score among
\* the records with a combined vector (a missing target_tags or use_context
\* vector charged 1.0), less those of them whose row cannot be decoded.
C11_TopLimitDecoded ==
    SemanticAnswer =>
        \E s \in RankSeqs :
            /\ IsTopRanking(s, EffectiveLimit(sreq.limit))
            /\ sresp.results = SelectSeq(s, LAMBDA i : ~ScanFails(products[i]))

\* C11 witness: two records have a combined vector, one of them lacks its
\* target_tags vector, their scores differ, and a call with limit 1 returned
\* the better one only.
C11_Witness ==
    /\ SemanticAnswer
    /\ sreq.limit = 1
    /\ Len(sresp.results) = 1
    /\ Cardinality(Rankable) = 2
    /\ \E a, b \in Rankable :
        /\ products[a].emb["target_tags"] = NullVec
        /\ RankScore(a) # RankScore(b)

\* The limit as the claim clamps it to 1..50.
ClampedLimit(limit) ==
    IF limit <= 0 THEN DefaultLimit ELSE IF limit > MaxLimit THEN MaxLimit ELSE limit

\* C13: the limit a call works with is the requested one clamped to 1..50:
\* unchanged within the range, 10 when non-positive or absent, 50 when above 50.
C13_LimitClamped ==
    (spc \in {"embed", "rank"} /\ ~sreq.nil) => slimit = ClampedLimit(sreq.limit)

\* Position of record id in a result list (0: not in it).
PositionIn(results, id) ==
    IF \E i \in 1..Len(results) : results[i] = id
    THEN CHOOSE i \in 1..Len(results) : results[i] = id
    ELSE 0

\* C12: of two rankable records, one with all-zero target_tags and use_context
\* vectors and one whose combined vector is closer to the query vector, the
\* closer one is ranked first.
C12_CloserCombinedFirst ==
    SemanticAnswer =>
        \A a, b \in Rankable :
            (/\ a # b
             /\ ~ScanFails(products[a]) /\ ~ScanFails(products[b])
             /\ IsZeroVec(products[a].emb["target_tags"])
             /\ IsZeroVec(products[a].emb["use_context"])
             /\ Distance(products[b].emb["combined"], sqvec)
                    < Distance(products[a].emb["combined"], sqvec)
             /\ PositionIn(sresp.results, a) # 0)
                => /\ PositionIn(sresp.results, b) # 0
                   /\ PositionIn(sresp.results, b) < PositionIn(sresp.results, a)

\* C14: a call with a nil request ends at once with an invalid-argument error;
\* no Provider call, ranking query or lexical fallback is made for it and no
\* state of the Store or of the Engine changes.
C14_NilRequestRejected ==
    [][(spc = "idle" /\ spc' # "idle" /\ sreq'.nil) =>
            /\ spc' = "done"
            /\ sresp' = ErrorResponse("InvalidArgument", "nil_request")
            /\ sqvec' = NullVec
            /\ UNCHANGED <<storeVars, syncVars, fillVars, dbVars>>]_vars

\* C14 witness: a nil request was rejected while the Store handle was set.
C14_Witness ==
    /\ spc = "done"
    /\ sreq.nil
    /\ db = "set"
    /\ sresp.code = "InvalidArgument"

\* C15: a ranked row that cannot be decoded is skipped and is not fatal: the
\* call succeeds and returns every other row of the ranking query, in rank order.
C15_UndecodableRowSkipped ==
    [][(spc = "rank" /\ spc' = "done" /\ sresp'.path = "semantic") =>
            /\ sresp'.kind = "ok"
            /\ \E rows \in RankedRows(sqvec, slimit) :
                /\ \A i \in 1..Len(rows) :
                       PositionIn(sresp'.results, rows[i]) # 0 <=> ~ScanFails(products[rows[i]])
                /\ \A i \in 1..Len(sresp'.results) : PositionIn(rows, sresp'.results[i]) # 0
                /\ \A i, j \in 1..Len(sresp'.results) :
                       i < j => PositionIn(rows, sresp'.results[i]) < PositionIn(rows, sresp'.results[j])]_vars

\* C15 witness: the best-ranked of two rows could not be decoded (a NULL list
\* column) and the call returned the other one.
C15_Witness ==
    /\ SemanticAnswer
    /\ slimit >= 2
    /\ \E a, b \in Rankable :
        /\ ScanFails(products[a])
        /\ ~ScanFails(products[b])
        /\ RankScore(a) < RankScore(b)
        /\ sresp.results = <<b>>

\* C16: a Provider reply that carries no embedding of D components counts as a
\* failed embed call of the Engine: the call is answered with the lexical
\* results and the reply's vector is not used for ranking.
C16_MalformedReplyFallsBack ==
    (spc = "done" /\ sqvec # NullVec /\ sqvec.dim # D /\ sresp.kind = "ok")
        => (sresp.path # "semantic" /\ sresp.results = SearchProducts(sreq.query))

C18_ReadOnly ==
    [][(spc' # spc \/ sctx' # sctx \/ sqvec' # sqvec \/ sresp' # sresp)
            => UNCHANGED <<products, notifies>>]_vars

\* C18 witness: a call computed a query vector of D components, ranked two
\* records with it and returned them.
C18_Witness ==
    /\ SemanticAnswer
    /\ FitsColumn(sqvec)
    /\ Len(sresp.results) = 2

\* ------------------------------------------------------------ Notifier
\* notify_for_embedding(): the payload built from the NEW row.
JobOf(id, row) ==
    [id |-> id,
     name |-> Coalesce(row.name),
     description |-> Coalesce(row.description),
     categories |-> Coalesce(row.categories),
     target_tags |-> CoalesceTags(row.target_tags),
     use_context |-> CoalesceTags(row.use_context)]

Listening == DOMAIN notifies

\* The notification queue has no room for one more message per listener.
QueueFull == \E w \in Listening : Len(notifies[w]) >= MaxQueue

\* A channel that delivers the payload to nobody.
NotifyDropping(id, row) == notifies

\* pg_notify('embedding_jobs', payload): every listening session receives it.
Notify(id, row) == [w \in Listening |-> Append(notifies[w], JobOf(id, row))]

\* embedding_notification_trigger: AFTER INSERT OR UPDATE ON products FOR EACH ROW.
\* The table after the statement, and the channel after the trigger ran.
AfterWrite(id, row) ==
    /\ products' = [i \in DOMAIN products \cup {id} |-> IF i = id THEN row ELSE products[i]]
    /\ notifies' = Notify(id, row)

\* ------------------------------------------------- catalog mutations
\* The texts catalog management writes: a full record, and one with NULL columns.
CatalogTexts ==
    { MkRow(<<"a", "b">>, <<"b">>, <<"c">>, <<<<"a">>>>, <<<<"b">>, <<"c">>>>, 10, NoEmbeddings),
      MkRow(<<"a">>, <<"a">>, NullText, NullTags, <<<<"b">>>>, 40, NoEmbeddings) }

\* INSERT of a new record (no embeddings yet) or UPDATE of a record's catalog fields.
MutateProduct(id, text) ==
    /\ nmut < MaxMutations
    /\ ~QueueFull
    /\ nmut' = nmut + 1
    /\ AfterWrite(id, IF id \in DOMAIN products
                      THEN [text EXCEPT !.emb = products[id].emb]
                      ELSE text)
    /\ UNCHANGED <<wpc, wjob, wvec, fillVars, dbVars, searchVars, orderVars>>

\* -------------------------------------------------------------- Worker
\* How the Provider answers the five calls made for one record.
ReplyPatterns ==
    { [c \in Cols |-> "ok"],
      [c \in Cols |-> "fail"],
      [c \in Cols |-> IF c = "description" THEN "short" ELSE "ok"] }

\* The five text variants of a job.
JobVariants(job) ==
    VariantText(job.name, job.description, job.categories, job.target_tags, job.use_context)

\* One Provider call of the Worker: a failed call or a malformed body (no
\* embedding of D components) is skipped.
WorkerEmbed(text, outcome) ==
    IF FitsColumn(ProviderResult(text, outcome)) THEN ProviderResult(text, outcome) ELSE NullVec

\* The Worker takes the next notification and calls the Provider once per variant.
WorkerTake(w, pattern) ==
    /\ w \in Listening
    /\ wpc[w] = "idle"
    /\ notifies[w] # <<>>
    /\ notifies' = [notifies EXCEPT ![w] = Tail(@)]
    /\ wjob' = [wjob EXCEPT ![w] = Head(notifies[w])]
    /\ wvec' = [wvec EXCEPT ![w] = [c \in Cols |-> WorkerEmbed(JobVariants(Head(notifies[w]))[c], pattern[c])]]
    /\ wpc' = [wpc EXCEPT ![w] = "write"]
    /\ UNCHANGED <<storeVars, fillVars, dbVars, searchVars, orderVars>>

\* The columns the Worker obtained a vector for.
Obtained(w) == {c \in Cols : wvec[w][c] # NullVec}

\* A write-back that would set all five columns, nulling those not obtained.
WrittenBackNulling(row, vecs) == [row EXCEPT !.emb = vecs]

\* A write-back that would only fill the columns still absent (a merge).
WrittenBackMerging(row, vecs) ==
    [row EXCEPT !.emb = [c \in Cols |-> IF row.emb[c] = NullVec THEN vecs[c] ELSE row.emb[c]]]

\* The row after the Worker's UPDATE: only the obtained columns are set.
WrittenBack(row, vecs) ==
    [row EXCEPT !.emb = [c \in Cols |-> IF vecs[c] # NullVec THEN vecs[c] ELSE row.emb[c]]]

\* The single write-back of a job.  Nothing is written when no variant was
\* obtained, when the record is gone, or when the Store rejects the statement.
WriteApplies(w) ==
    /\ Obtained(w) # {}
    /\ wjob[w].id \in DOMAIN products
    /\ ~QueueFull
    /\ \A c \in Obtained(w) : FitsColumn(wvec[w][c])

\* A Worker that would stop at a job with a failed Provider call (the failure
\* escaping process_embedding_job and ending the loop).
WorkerWriteBackHalting(w) ==
    /\ w \in Listening
    /\ wpc[w] = "write"
    /\ Obtained(w) = Cols
    /\ IF WriteApplies(w)
       THEN AfterWrite(wjob[w].id, WrittenBack(products[wjob[w].id], wvec[w]))
       ELSE UNCHANGED <<products, notifies>>
    /\ wpc' = [wpc EXCEPT ![w] = "idle"]
    /\ wjob' = [wjob EXCEPT ![w] = NoJob]
    /\ wvec' = [wvec EXCEPT ![w] = NoEmbeddings]
    /\ UNCHANGED <<nmut, fillVars, dbVars, searchVars, orderVars>>

\* A write-back whose UPDATE would lack its WHERE clause: every record gets
\* the vectors of the job.
WorkerWriteBackAll(w) ==
    /\ w \in Listening
    /\ wpc[w] = "write"
    /\ IF WriteApplies(w)
       THEN /\ products' = [i \in DOMAIN products |-> WrittenBack(products[i], wvec[w])]
            /\ notifies' = Notify(wjob[w].id, WrittenBack(products[wjob[w].id], wvec[w]))
       ELSE UNCHANGED <<products, notifies>>
    /\ wpc' = [wpc EXCEPT ![w] = "idle"]
    /\ wjob' = [wjob EXCEPT ![w] = NoJob]
    /\ wvec' = [wvec EXCEPT ![w] = NoEmbeddings]
    /\ UNCHANGED <<nmut, fillVars, dbVars, searchVars, orderVars>>

WorkerWriteBack(w) ==
    /\ w \in Listening
    /\ wpc[w] = "write"
    /\ IF WriteApplies(w)
       THEN AfterWrite(wjob[w].id, WrittenBack(products[wjob[w].id], wvec[w]))
       ELSE UNCHANGED <<products, notifies>>
    /\ wpc' = [wpc EXCEPT ![w] = "idle"]
    /\ wjob' = [wjob EXCEPT ![w] = NoJob]
    /\ wvec' = [wvec EXCEPT ![w] = NoEmbeddings]
    /\ UNCHANGED <<nmut, fillVars, dbVars, searchVars, orderVars>>

\* --------------------------------------------------- populateEmbeddings
RECURSIVE JoinComma(_)
JoinComma(tags) ==
    IF tags = <<>> THEN <<>>
    ELSE IF Len(tags) = 1 THEN tags[1]
    ELSE tags[1] \o <<",">> \o JoinComma(Tail(tags))

\* A TEXT[] column scanned into a sql.NullString: its array literal, "" for NULL.
ArrayText(tags) == IF tags = NullTags THEN <<>> ELSE <<"{">> \o JoinComma(tags) \o <<"}">>

\* The texts populateEmbeddings embeds for a selected row.
ScannedVariants(row) ==
    VariantText(Coalesce(row.name), Coalesce(row.description), Coalesce(row.categories),
                ArrayText(row.target_tags), ArrayText(row.use_context))

\* SELECT ... FROM products WHERE combined_embedding IS NULL
SelectUnembedded ==
    LET Unembedded(i) == i \in DOMAIN products /\ products[i].emb["combined"] = NullVec
        ids == SelectSeq(IdSeq, Unembedded)
    IN  [k \in 1..Len(ids) |-> [id |-> ids[k], variants |-> ScannedVariants(products[ids[k]])]]

\* generateEmbedding: the Provider's array as it came, or the hash-based
\* pseudo-embedding when the call failed.
GenerateEmbedding(text, outcome) ==
    IF outcome = "fail" THEN HashEmbedding(text) ELSE ProviderResult(text, outcome)

\* populateEmbeddings starts: the rows without a combined vector are selected.
PopulateStart ==
    /\ db = "set"
    /\ bpc = "idle"
    /\ SelectUnembedded # <<>>
    /\ brows' = SelectUnembedded
    /\ bpc' = "rows"
    /\ UNCHANGED <<storeVars, syncVars, dbVars, searchVars, orderVars>>

\* The UPDATE of a selected row is accepted by the Store.
FillApplies(id, vecs) ==
    /\ id \in DOMAIN products
    /\ ~QueueFull
    /\ \A c \in Cols : FitsColumn(vecs[c])

\* One iteration of the row loop: five embeddings, one UPDATE of the five
\* columns; a failed UPDATE is logged and the loop continues.
PopulateRow(pattern) ==
    /\ bpc = "rows"
    /\ LET sel == Head(brows)
           vecs == [c \in Cols |-> GenerateEmbedding(sel.variants[c], pattern[c])]
       IN  IF FillApplies(sel.id, vecs)
           THEN AfterWrite(sel.id, [products[sel.id] EXCEPT !.emb = vecs])
           ELSE UNCHANGED <<products, notifies>>
    /\ brows' = Tail(brows)
    /\ bpc' = IF Tail(brows) = <<>> THEN "idle" ELSE "rows"
    /\ UNCHANGED <<nmut, wpc, wjob, wvec, dbVars, searchVars, orderVars>>

\* ---------------------------------------- the synchronisation pipeline
\* An empty catalog, two Workers listening, the Engine's handle set.
InitSyncAll ==
    /\ products = <<>>
    /\ nmut = 0
    /\ InitSync /\ InitFill /\ InitSearch /\ InitOrders
    /\ host = TRUE
    /\ db = "set"
    /\ initResult = "ok"

\* Catalog mutations, the Notifier and the Workers.
NextSync ==
    \/ \E id \in Ids : \E text \in CatalogTexts : MutateProduct(id, text)
    \/ \E w \in Workers : \E pattern \in ReplyPatterns : WorkerTake(w, pattern)
    \/ \E w \in Workers : WorkerWriteBack(w)

SpecSync == InitSyncAll /\ [][NextSync]_vars

\* The same with the backfill running beside one listening Worker.
NextFill ==
    \/ \E id \in Ids : \E text \in CatalogTexts : MutateProduct(id, text)
    \/ \E w \in Workers : \E pattern \in ReplyPatterns : WorkerTake(w, pattern)
    \/ \E w \in Workers : WorkerWriteBack(w)
    \/ PopulateStart
    \/ \E pattern \in ReplyPatterns : PopulateRow(pattern)

InitSyncOne ==
    /\ products = <<>>
    /\ nmut = 0
    /\ notifies = [w \in {"w1"} |-> <<>>]
    /\ wpc = [w \in Workers |-> "idle"]
    /\ wjob = [w \in Workers |-> NoJob]
    /\ wvec = [w \in Workers |-> NoEmbeddings]
    /\ InitFill /\ InitSearch /\ InitOrders
    /\ host = TRUE
    /\ db = "set"
    /\ initResult = "ok"

SpecFill == InitSyncOne /\ [][NextFill]_vars

\* A fair Worker: the single consumer loop of a Worker process keeps taking
\* notifications and completing its write-backs.
SpecSyncFair ==
    /\ InitSyncOne
    /\ [][NextFill]_vars
    /\ \A w \in Workers :
        /\ WF_vars(\E pattern \in ReplyPatterns : WorkerTake(w, pattern))
        /\ WF_vars(WorkerWriteBack(w))

\* The fair Worker with catalog mutations only.
SpecWorkerFair ==
    /\ InitSyncOne
    /\ [][NextSync]_vars
    /\ \A w \in Workers :
        /\ WF_vars(\E pattern \in ReplyPatterns : WorkerTake(w, pattern))
        /\ WF_vars(WorkerWriteBack(w))

\* --------------------------------------------------- claims on the Worker
\* The step that completes a job of Worker w.
WriteBackStep(w) == wpc[w] = "write" /\ wpc'[w] = "idle"

\* The embeddings computed from a job when every Provider call succeeds.
JobEmbeddings(job) == [c \in Cols |-> Embed(JobVariants(job)[c])]

\* The vectors Worker w obtained are what the record already stores: the job
\* (or an equal redelivery of it) has been processed before.
AlreadyStored(w) ==
    /\ wjob[w].id \in DOMAIN products
    /\ \A c \in Obtained(w) : products[wjob[w].id].emb[c] = wvec[w][c]

\* Some vector computed from the job of Worker w is stored in its record: a
\* job with this payload has been processed before.
ProcessedBefore(w) ==
    /\ wjob[w].id \in DOMAIN products
    /\ \E c \in Cols : products[wjob[w].id].emb[c] = JobEmbeddings(wjob[w])[c]

C7_WholeOrAbsent ==
    \A id \in DOMAIN products : \A c \in Cols :
        products[id].emb[c] = NullVec \/ products[id].emb[c].dim = D

\* C7 witness: the backfill has stored vectors, and a Worker has dropped a
\* Provider reply of the wrong length while keeping the other four.
C7_Witness ==
    /\ \E id \in DOMAIN products : products[id].emb["combined"].kind = "hash"
    /\ \E w \in Workers :
        /\ wpc[w] = "write"
        /\ Obtained(w) = Cols \ {"description"}

\* No job of record id is waiting in a queue or being processed.
NoJobPending(id) ==
    /\ \A w \in Listening : \A k \in 1..Len(notifies[w]) : notifies[w][k].id # id
    /\ \A w \in Workers : wpc[w] = "write" => wjob[w].id # id

AllConsistent ==
    \A id \in DOMAIN products : products[id].emb = CurrentEmbeddings(products[id])

\* No write-back in progress finds the notification queue full.
NoOverflow == \A w \in Listening : wpc[w] = "write" => ~QueueFull

\* No Provider call of a job in progress failed and its write-back has room.
NoLoss ==
    \A w \in Listening : wpc[w] = "write" => (Obtained(w) = Cols /\ ~QueueFull)

CatalogFields(row) ==
    <<row.name, row.description, row.categories, row.target_tags, row.use_context, row.price>>

\* C19: processing a job for record r changes nothing in the Store but the five
\* embedding columns of r: no record appears or disappears, the catalog fields
\* of every record and the EmbeddingSets of all other records stay as they were.
C19_OnlyTargetEmbeddings ==
    [][\A w \in Workers :
        WriteBackStep(w) =>
            /\ DOMAIN products' = DOMAIN products
            /\ \A id \in DOMAIN products :
                /\ CatalogFields(products'[id]) = CatalogFields(products[id])
                /\ id # wjob[w].id => products'[id].emb = products[id].emb]_vars

\* C19 witness: a Worker is about to write the vectors of its job into one
\* record while another record holds different, non-null vectors.
C19_Witness ==
    \E w \in Workers :
        /\ wpc[w] = "write"
        /\ WriteApplies(w)
        /\ \E other \in DOMAIN products \ {wjob[w].id} :
            /\ products[other].emb["combined"] # NullVec
            /\ products[other].emb["combined"] # wvec[w]["combined"]

\* C20: the embedding columns of a record change only through the write-back
\* of a Worker processing a job of that record.
C20_WorkerOwnsEmbeddings ==
    [][\A id \in DOMAIN products :
        (id \in DOMAIN products' /\ products'[id].emb # products[id].emb)
            => \E w \in Workers : WriteBackStep(w) /\ wjob[w].id = id]_vars

\* C21: Provider failures never halt the Worker loop.  A job with failed
\* Provider calls is completed and the Worker takes the next notification, so
\* every job waiting in its queue is eventually processed; and completing a job
\* with failures leaves every other record as it was.
C21_LoopNeverHalts ==
    /\ \A w \in Workers : (wpc[w] = "write" /\ Obtained(w) # Cols) ~> (wpc[w] = "idle")
    /\ \A w \in Workers : (w \in Listening /\ notifies[w] # <<>>) ~> (wpc[w] = "write")
    /\ [][\A w \in Workers :
            (WriteBackStep(w) /\ Obtained(w) # Cols)
                => \A id \in DOMAIN products :
                       id # wjob[w].id => (id \in DOMAIN products' /\ products'[id] = products[id])]_vars

\* C21 witness: every Provider call of the job in hand failed while a later
\* job, of another record that already has vectors, waits in the queue.
C21_Witness ==
    \E w \in Listening :
        /\ wpc[w] = "write"
        /\ Obtained(w) = {}
        /\ notifies[w] # <<>>
        /\ Head(notifies[w]).id # wjob[w].id
        /\ Head(notifies[w]).id \in DOMAIN products
        /\ products[Head(notifies[w]).id].emb["combined"] # NullVec

\* The pipeline at rest: every listening Worker is idle with an empty queue.
Quiet == \A w \in Listening : notifies[w] = <<>> /\ wpc[w] = "idle"

\* C25: quiescence.  After the finitely many catalog mutations the pipeline
\* reaches a state with no pending job and stays there: a Worker's own
\* write-back makes the Notifier emit no further job.
C25_Quiescence == <>[]Quiet

\* C26: no placeholder vector is ever persisted: no embedding column of a
\* stored record holds the hash-based pseudo-embedding, whichever path wrote it.
C26_NoPlaceholderStored ==
    \A id \in DOMAIN products : \A c \in Cols : products[id].emb[c].kind # "hash"

\* The step in which populateEmbeddings writes the row it is at.
FillWriteStep == bpc = "rows" /\ brows' = Tail(brows) /\ products' # products

\* C27: populateEmbeddings only fills gaps: it writes a record only when the
\* record's combined vector is absent at the moment of the write, all five
\* columns in one update or none, and leaves the other records alone.
C27_OnlyFillsGaps ==
    [][FillWriteStep =>
          LET id == Head(brows).id
          IN  /\ products[id].emb["combined"] = NullVec
              /\ \A c \in Cols : products'[id].emb[c] # NullVec
              /\ \A i \in DOMAIN products : i # id => products'[i] = products[i]]_vars

\* C28: initDatabase leaves a consistent handle: a call that returned an error
\* left the handle unset.
C28_ErrorLeavesUnset == initResult = "error" => db = "nil"

\* ------------------------------------------- checkout: specifications
\* The catalog side at rest.
InitCatalog ==
    /\ products = <<>>
    /\ nmut = 0
    /\ InitSync /\ InitFill /\ InitSearch
    /\ host = FALSE
    /\ db = "nil"
    /\ initResult = "none"

\* Unit costs up to the largest int64, nanos up to the largest allowed, and
\* quantities up to the largest int32.
UnitCosts ==
    {Int64(0), Int64(10), Int64(15),
     <<0, 0, 0, 0, 0, 0, 0, 64>>, <<255, 255, 255, 255, 255, 255, 255, 127>>}
NanoValues == {0, 500000000, 990000000, 999999999}
Quantities == {0, 1, 2, 3, 2147483647}

ItemValues ==
    { [ProtoItem("PRODUCT-1", q, Money("USD", 0, n)) EXCEPT !.cost.units = u] :
      u \in UnitCosts, n \in NanoValues, q \in Quantities }

ProtoItemLists ==
    {<<>>} \cup { <<item>> : item \in ItemValues }
           \cup UNION { [1..k -> TestItems] : k \in 2..MaxItems }

InitItems ==
    /\ InitCatalog
    /\ mock = NewMockConnection
    /\ conn = NewConnection
    /\ call \in { [NoCall EXCEPT !.op = "NewOrderItemsFromProto",
                                 !.arg = [orderID |-> "test-order", protoItems |-> list]] :
                  list \in ProtoItemLists }
    /\ result = [b \in Backends |-> NoResult]
    /\ saved = [b \in Backends |-> <<>>]

\* The conversion of one list of items.
SpecItems == InitItems /\ [][ConvertItems]_vars

\* An OrderService over the mock and one over the Connection, given the same calls.
NextOrders ==
    \/ \E outcome \in {"ok", "error"} : Connect(outcome)
    \/ \E shouldError \in BOOLEAN : SetShouldError(shouldError)
    \/ \E req \in SaveRequests : \E fault \in SaveFaults : SaveOrder(req, fault)
    \/ \E userID \in Users : \E fault \in ReadFaults : GetUserOrderHistory(userID, fault)
    \/ \E orderID \in OrderIds : \E fault \in ReadFaults : GetOrderDetails(orderID, fault)

\* A new OrderService over each implementation, nothing saved yet.
InitOrderService == InitCatalog /\ InitOrders

SpecOrders == InitOrderService /\ [][NextOrders]_vars

\* ------------------------------------------------ claims on the models
\* A number of up to 16 bytes, for exact arithmetic on line totals.
Wide(a) == ShiftBytes(a, 0, 16)

\* (u * 10^9 + n) * q, exactly.
ExactTotal(item) ==
    Times(Plus(Times(Wide(item.cost.units), Bytes(NanosPerUnit, 16), 16),
               Bytes(item.cost.nanos, 16), 16),
          Bytes(item.quantity, 16), 16)

\* The claim's precondition on an input item.
InRange(item) ==
    /\ item.quantity >= 0
    /\ ~IsNegative(item.cost.units)
    /\ item.cost.nanos \in 0..(NanosPerUnit - 1)

\* The exact total has its units within int64.
TotalFits(item) ==
    Less(ExactTotal(item), Times(Wide(<<0, 0, 0, 0, 0, 0, 0, 128>>), Bytes(NanosPerUnit, 16), 16))

\* TotalPriceUnits * 10^9 + TotalPriceNanos = (u * 10^9 + n) * q, 0 <= TotalPriceNanos < 10^9.
TotalIsExact(in, out) ==
    /\ ~IsNegative(out.TotalPriceUnits)
    /\ out.TotalPriceNanos \in 0..(NanosPerUnit - 1)
    /\ Plus(Times(Wide(out.TotalPriceUnits), Bytes(NanosPerUnit, 16), 16),
            Bytes(out.TotalPriceNanos, 16), 16) = ExactTotal(in)

\* One output item per input item, in order, the input's fields copied.
ItemsCopied(in, out) ==
    /\ Len(out) = Len(in)
    /\ \A i \in 1..Len(in) :
        /\ out[i].ProductID = in[i].product_id
        /\ out[i].Quantity = in[i].quantity
        /\ out[i].UnitPriceCurrency = in[i].cost.currency_code
        /\ out[i].TotalPriceCurrency = in[i].cost.currency_code
        /\ out[i].UnitPriceUnits = in[i].cost.units
        /\ out[i].UnitPriceNanos = in[i].cost.nanos

Converted == call.op = "NewOrderItemsFromProto" /\ call.n = 1

\* C22 as stated: for every item with q >= 0, u >= 0 and n in 0..999999999 the
\* line total is exact, with its nanos carried into units; one item per input
\* item, in order, with product id, quantity, unit price and currency copied.
C22_LineTotalsExact ==
    Converted =>
        LET in == call.arg.protoItems
            out == result["mock"].items
        IN  /\ ItemsCopied(in, out)
            /\ \A i \in 1..Len(in) : InRange(in[i]) => TotalIsExact(in[i], out[i])

\* C22 amended: the same for the items whose exact total has units that fit
\* an int64.
C22_LineTotalsExactWithinInt64 ==
    Converted =>
        LET in == call.arg.protoItems
            out == result["mock"].items
        IN  /\ ItemsCopied(in, out)
            /\ \A i \in 1..Len(in) :
                   (InRange(in[i]) /\ TotalFits(in[i])) => TotalIsExact(in[i], out[i])

\* C22 witness: the largest quantity of an item of 15.999999999 was converted:
\* the nanos overflow many times and are carried into the units.
C22_Witness ==
    /\ Converted
    /\ \E i \in 1..Len(call.arg.protoItems) :
        LET in == call.arg.protoItems[i]
        IN  /\ in.quantity = 2147483647
            /\ in.cost.nanos = 999999999
            /\ in.cost.units = Int64(15)
            /\ TotalFits(in)
            /\ result["mock"].items[i].TotalPriceNanos = 852516353

\* ----------------------------------------- claims on the order history
\* What a read must show of a saved request's order.
SavedOrder(req) ==
    [OrderID |-> req.orderResult.order_id, UserID |-> req.userID, Email |-> req.email,
     TotalAmountCurrency |-> req.total.currency_code, TotalAmountUnits |-> req.total.units,
     TotalAmountNanos |-> req.total.nanos, Status |-> "completed"]

\* The same fields of a returned order.
OrderSummary(order) ==
    [OrderID |-> order.OrderID, UserID |-> order.UserID, Email |-> order.Email,
     TotalAmountCurrency |-> order.TotalAmountCurrency,
     TotalAmountUnits |-> order.TotalAmountUnits,
     TotalAmountNanos |-> order.TotalAmountNanos, Status |-> order.Status]

\* Items without the id the database gave them.
ItemContents(items) == [k \in 1..Len(items) |-> [items[k] EXCEPT !.ID = 0]]

DistinctIds(reqs) ==
    \A j, k \in 1..Len(reqs) :
        reqs[j].orderResult.order_id = reqs[k].orderResult.order_id => j = k

\* The requests saved for a user, and for an order id.
SavedFor(b, userID) == {k \in 1..Len(saved[b]) : saved[b][k].userID = userID}
SavedAs(b, orderID) == {k \in 1..Len(saved[b]) : saved[b][k].orderResult.order_id = orderID}

Prefix(op) ==
    CASE op = "SaveOrder" -> "failed to save order to database"
      [] op = "GetUserOrderHistory" -> "failed to get user order history"
      [] op = "GetOrderDetails" -> "failed to get order items"

\* The orders and items an implementation holds.
Stored(b, m, c) ==
    IF b = "mock" THEN <<m.orders, m.orderItems, m.userOrders>>
    ELSE <<c.order_history, c.order_items>>

\* C24: when the database operation fails, the OrderService method returns an
\* error that wraps the database error under its own prefix and returns no
\* data, and the stored orders and items are left as they were.
C24_FailureReported ==
    /\ [](\A b \in Backends :
            result[b].err # <<>> =>
                /\ Len(result[b].err) = 2
                /\ result[b].err[1] = Prefix(call.op)
                /\ result[b].err[2] # NoError
                /\ result[b].orders = <<>>
                /\ result[b].items = <<>>)
    /\ [][call' # call =>
            \A b \in Backends :
                /\ (b = "mock" /\ mock.shouldError) => result'[b].err # <<>>
                /\ (b = "conn" /\ call'.fault \in {"begin", "order", "commit", "query"})
                       => result'[b].err # <<>>
                /\ result'[b].err # <<>> => Stored(b, mock', conn') = Stored(b, mock, conn)]_vars

\* C24 witness: the one SaveOrder made so far failed on both implementations
\* and a later read, made after the mock recovered, succeeds and shows nothing.
C24_Witness ==
    /\ call.n = 1
    /\ call.op = "GetUserOrderHistory"
    /\ call.fault = "none"
    /\ conn.DB = "set"
    /\ \A b \in Backends :
        /\ saved[b] = <<>>
        /\ result[b] = NoResult
    /\ conn.serial > 0

\* Every order row has exactly the items it was saved with, and every item row
\* belongs to an order row.
AtomicStore ==
    /\ Len(conn.order_history) = Len(saved["conn"])
    /\ \A k \in 1..Len(conn.order_history) :
        LET orderID == conn.order_history[k].OrderID
            ofOrder(row) == row.OrderID = orderID
        IN  /\ SavedAs("conn", orderID) # {}
            /\ \A j \in SavedAs("conn", orderID) :
                   ItemContents(SelectSeq(conn.order_items, ofOrder)) = ItemsOf[saved["conn"][j]]
    /\ \A k \in 1..Len(conn.order_items) : HasOrder(conn, conn.order_items[k].OrderID)

\* C29: Connection.SaveOrder is atomic.  In every reachable state an order row
\* and all of its item rows are present together or not at all, and a call
\* that returns an error stores neither the order nor any of its items.
C29_SaveOrderAtomic ==
    /\ []AtomicStore
    /\ [][(call'.n # call.n /\ result'["conn"].err # <<>>) =>
              /\ conn'.order_history = conn.order_history
              /\ conn'.order_items = conn.order_items]_vars

\* C29 witness: a SaveOrder of two items failed at its last item INSERT, after
\* the order row and the first item were inserted in the transaction.
C29_Witness ==
    /\ call.op = "SaveOrder"
    /\ call.fault = "item"
    /\ result["conn"].err = <<"failed to save order to database", "failed to insert order item">>
    /\ conn.serial = 2
    /\ conn.order_history = <<>>
    /\ conn.order_items = <<>>

\* Two results agree: both fail or both succeed, with the same orders in the
\* same order and the same items in the same order.
SameResult(m, c) ==
    /\ (m.err = <<>>) <=> (c.err = <<>>)
    /\ Len(m.orders) = Len(c.orders)
    /\ \A k \in 1..Len(m.orders) :
           k <= Len(c.orders) => OrderSummary(m.orders[k]) = OrderSummary(c.orders[k])
    /\ ItemContents(m.items) = ItemContents(c.items)

\* C30: MockConnection refines Connection.  For every sequence of calls in
\* which no failure is injected, the mock and the Connection return the same
\* results: the same errors, the same number of orders and the same order.
C30_MockRefinesConnection ==
    (call.clean /\ call.op \in {"SaveOrder", "GetUserOrderHistory", "GetOrderDetails"})
        => SameResult(result["mock"], result["conn"])

\* The same for sequences that save every order id once: the order of the
\* returned orders still differs.
C30_SameOrderOfOrders ==
    (call.clean /\ call.op = "GetUserOrderHistory" /\ DistinctIds(saved["mock"]))
        => SameResult(result["mock"], result["conn"])

====
